---- MODULE Spec2Model ----
(***************************************************************************)
(* Campus Navigator: the Map Model (models/graph.py) and the Path Finder   *)
(* (models/pathfinder.py).                                                 *)
(*                                                                         *)
(* The Map Model is a pair of dictionaries: nodes (id -> Node) and         *)
(* adjacency (id -> list of (neighbor id, weight)).  The Path Finder runs  *)
(* Dijkstra's algorithm over them with a binary heap of (distance, id)     *)
(* tuples.  Every identifier, weight and name is drawn from a small set.   *)
(***************************************************************************)
EXTENDS Integers, Sequences, FiniteSets

(***************************************************************************)
(* Bounds of the model.                                                    *)
(***************************************************************************)
\* the number of add_edge calls made on one Graph (directly or by a load)
MaxEdges == 3
\* the longest "nodes" list and the longest "edges" list of a map description
MaxDocLen == 2

\* node identifiers (JSON integers)
Ids == {1, 2, 3}
\* edge weights: non-negative, zero included
Weights == {0, 1}
\* node display names
Names == {"Gym"}

\* node display names of the runs that register an identifier again
NamesWide == {"Gym", "Lab"}

(***************************************************************************)
(* Python values.                                                          *)
(***************************************************************************)
\* None, as a predecessor (no identifier is 0)
None == 0
\* float('inf'): above every finite path weight the bounds allow
Inf == 1000000
\* the path None of a no-path result: no list of identifiers equals it
NonePath == <<None>>

VARIABLES
    nodes,          \* Graph.nodes: id -> Node
    adjacency,      \* Graph.adjacency: id -> sequence of <<neighbor, weight>>
    loadOutcome,    \* how load_from_json ended, while it is the last mutator called
    pc,             \* position of the caller in find_shortest_path
    start_id,       \* find_shortest_path's arguments
    end_id,
    distances,      \* _dijkstra's locals
    predecessors,
    pq,
    visited,
    result          \* what find_shortest_path returned or raised

graphVars == <<nodes, adjacency, loadOutcome>>
searchVars == <<pc, start_id, end_id, distances, predecessors, pq, visited, result>>
vars == <<nodes, adjacency, loadOutcome, pc, start_id, end_id, distances,
          predecessors, pq, visited, result>>

\* a dictionary with no keys
EmptyDict == [k \in {} |-> None]

\* d[k] = v, for a key d may or may not hold
DictSet(d, k, v) == [x \in (DOMAIN d) \cup {k} |-> IF x = k THEN v ELSE d[x]]

(***************************************************************************)
(* Graph (models/graph.py)                                                 *)
(***************************************************************************)
Node(id, name) == [id |-> id, name |-> name]

\* add_node with "self.adjacency[node.id] = []" outside its "if"
add_node_resets(ns, adj, node) ==
    <<DictSet(ns, node.id, node), DictSet(adj, node.id, <<>>)>>

\* Graph.add_node: the state <<nodes, adjacency>> after the call
add_node(ns, adj, node) ==
    <<DictSet(ns, node.id, node),
      IF node.id \notin DOMAIN adj THEN DictSet(adj, node.id, <<>>) ELSE adj>>

\* add_edge without its second append: a one-way edge
add_edge_one_way(adj, from_id, to_id, weight) ==
    LET a1 == IF from_id \notin DOMAIN adj THEN DictSet(adj, from_id, <<>>) ELSE adj
        a2 == IF to_id \notin DOMAIN a1 THEN DictSet(a1, to_id, <<>>) ELSE a1
    IN  [a2 EXCEPT ![from_id] = Append(@, <<to_id, weight>>)]

\* Graph.add_edge: the adjacency after the call
add_edge(adj, from_id, to_id, weight) ==
    LET a1 == IF from_id \notin DOMAIN adj THEN DictSet(adj, from_id, <<>>) ELSE adj
        a2 == IF to_id \notin DOMAIN a1 THEN DictSet(a1, to_id, <<>>) ELSE a1
        a3 == [a2 EXCEPT ![from_id] = Append(@, <<to_id, weight>>)]
    IN  [a3 EXCEPT ![to_id] = Append(@, <<from_id, weight>>)]

\* Graph.get_neighbors: adjacency.get(node_id, [])
get_neighbors(adj, node_id) ==
    IF node_id \in DOMAIN adj THEN adj[node_id] ELSE <<>>

\* list(nodes.values()) when the dictionary holds its keys in this order
values(ns, order) == [i \in 1..Len(order) |-> ns[order[i]]]

\* x put into a list sorted by id, after the elements whose id is not larger
RECURSIVE InsertById(_, _)
InsertById(l, x) ==
    IF l = <<>> THEN <<x>>
    ELSE IF x.id < Head(l).id THEN <<x>> \o l
    ELSE <<Head(l)>> \o InsertById(Tail(l), x)

\* sorted(l, key=lambda n: n.id), without the sort
unsorted(l) == l

\* sorted(l, key=lambda n: n.id): a stable sort
RECURSIVE sorted_by_id(_)
sorted_by_id(l) ==
    IF l = <<>> THEN <<>>
    ELSE InsertById(sorted_by_id(SubSeq(l, 1, Len(l) - 1)), l[Len(l)])

\* Graph.get_all_nodes
get_all_nodes(ns, order) == sorted_by_id(values(ns, order))

\* the number of add_edge calls the adjacency lists record
RECURSIVE SumLen(_, _)
SumLen(adj, keys) ==
    IF keys = {} THEN 0
    ELSE LET k == CHOOSE x \in keys : TRUE
         IN  Len(adj[k]) + SumLen(adj, keys \ {k})

EdgeCount(adj) == SumLen(adj, DOMAIN adj) \div 2

(***************************************************************************)
(* Graph.load_from_json.  A map description is a file that may be missing  *)
(* or malformed, or holds data["nodes"] and data["edges"]: lists of        *)
(* dictionaries, each of which may lack a required key.                    *)
(***************************************************************************)
\* a node entry, or one that lacks "name"
NodeEntries ==
    {[id |-> i, name |-> n] : i \in Ids, n \in Names} \cup {[id |-> 1]}

\* an edge entry, or one that lacks "weight"; a description lists each edge
\* from its smaller endpoint (add_edge(a, b, w) and add_edge(b, a, w) leave
\* the same Graph)
EdgeEntries ==
    {[from |-> ab[1], to |-> ab[2], weight |-> w] :
        ab \in {x \in Ids \X Ids : x[1] <= x[2]}, w \in Weights}
    \cup {[from |-> 1, to |-> 2]}

SeqsUpTo(S, n) == UNION {[1..k -> S] : k \in 0..n}

\* the "for node_data in data['nodes']" loop from entry i on
RECURSIVE LoadNodes(_, _, _, _)
LoadNodes(ns, adj, entries, i) ==
    IF i > Len(entries) THEN [nodes |-> ns, adjacency |-> adj, exc |-> "none"]
    ELSE IF {"id", "name"} \subseteq DOMAIN entries[i]
         THEN LET r == add_node(ns, adj, Node(entries[i].id, entries[i].name))
              IN  LoadNodes(r[1], r[2], entries, i + 1)
         ELSE [nodes |-> ns, adjacency |-> adj, exc |-> "KeyError"]

\* the "for edge_data in data['edges']" loop from entry i on
RECURSIVE LoadEdges(_, _, _, _)
LoadEdges(ns, adj, entries, i) ==
    IF i > Len(entries) THEN [nodes |-> ns, adjacency |-> adj, exc |-> "none"]
    ELSE IF {"from", "to", "weight"} \subseteq DOMAIN entries[i]
         THEN LoadEdges(ns,
                        add_edge(adj, entries[i].from, entries[i].to,
                                 entries[i].weight),
                        entries, i + 1)
         ELSE [nodes |-> ns, adjacency |-> adj, exc |-> "KeyError"]

\* Graph.load_from_json: the Graph after the call and the exception it raised
load_from_json(ns, adj, doc) ==
    IF doc.file = "missing"
    THEN [nodes |-> ns, adjacency |-> adj, exc |-> "FileNotFoundError"]
    ELSE IF doc.file = "malformed"
    THEN [nodes |-> ns, adjacency |-> adj, exc |-> "JSONDecodeError"]
    ELSE LET n == LoadNodes(ns, adj, doc.nodes, 1)
         IN  IF n.exc # "none" THEN n
             ELSE LoadEdges(n.nodes, n.adjacency, doc.edges, 1)

Idle == pc = "idle"

Docs ==
    {[file |-> f, nodes |-> <<>>, edges |-> <<>>] : f \in {"missing", "malformed"}}
    \cup
    {[file |-> "ok", nodes |-> n, edges |-> e] :
        n \in SeqsUpTo(NodeEntries, MaxDocLen),
        e \in SeqsUpTo(EdgeEntries, MaxDocLen)}

\* graph = Graph(); graph.load_from_json(path): every caller loads into the
\* Graph it has just constructed
LoadFromJson ==
    /\ Idle
    /\ DOMAIN nodes = {} /\ DOMAIN adjacency = {} /\ loadOutcome = "none"
    /\ \E doc \in Docs :
          LET r == load_from_json(nodes, adjacency, doc)
          IN  /\ nodes' = r.nodes
              /\ adjacency' = r.adjacency
              /\ loadOutcome' = IF r.exc = "none" THEN "returned" ELSE r.exc
    /\ UNCHANGED searchVars

AddNode(id, name) ==
    /\ Idle
    /\ LET r == add_node(nodes, adjacency, Node(id, name))
       IN  /\ nodes' = r[1]
           /\ adjacency' = r[2]
    /\ loadOutcome' = "none"
    /\ UNCHANGED searchVars

AddEdge(from_id, to_id, weight) ==
    /\ Idle
    /\ EdgeCount(adjacency) < MaxEdges
    /\ adjacency' = add_edge(adjacency, from_id, to_id, weight)
    /\ loadOutcome' = "none"
    /\ UNCHANGED <<nodes, searchVars>>

(***************************************************************************)
(* PathFinder (models/pathfinder.py)                                       *)
(***************************************************************************)
\* what find_shortest_path hands to its caller
Returned(path, weight) == [kind |-> "return", path |-> path, weight |-> weight]
Raised(exc) == [kind |-> "raise", exc |-> exc]
NoResult == [kind |-> "none"]
NoPath == Returned(NonePath, Inf)

\* (d1, n1) < (d2, n2) on Python tuples
TupleLess(x, y) == x[1] < y[1] \/ (x[1] = y[1] /\ x[2] < y[2])

\* a plain list.append in place of heapq.heappush: entries pop in insertion order
heappush_unordered(q, x) == Append(q, x)

\* heapq.heappush: the heap is kept as the sorted sequence of its entries
RECURSIVE heappush(_, _)
heappush(q, x) ==
    IF q = <<>> THEN <<x>>
    ELSE IF TupleLess(x, Head(q)) THEN <<x>> \o q
    ELSE <<Head(q)>> \o heappush(Tail(q), x)

\* the neighbor loop with "new_dist <= distances[neighbor_id]" as its test
RECURSIVE Relax_non_strict(_, _, _, _, _)
Relax_non_strict(st, current_dist, current_id, nbrs, i) ==
    IF i > Len(nbrs) THEN st
    ELSE LET neighbor_id == nbrs[i][1]
             new_dist == current_dist + nbrs[i][2]
         IN  IF neighbor_id \notin DOMAIN st.distances
             THEN [st EXCEPT !.exc = "KeyError"]
             ELSE IF new_dist <= st.distances[neighbor_id]
             THEN Relax_non_strict(
                        [st EXCEPT !.distances[neighbor_id] = new_dist,
                                   !.predecessors[neighbor_id] = current_id,
                                   !.pq = heappush(@, <<new_dist, neighbor_id>>)],
                        current_dist, current_id, nbrs, i + 1)
             ELSE Relax_non_strict(st, current_dist, current_id, nbrs, i + 1)

\* the "for neighbor_id, weight in get_neighbors(current_id)" loop from entry i
\* on; st holds _dijkstra's locals and the exception raised, if any
RECURSIVE Relax(_, _, _, _, _)
Relax(st, current_dist, current_id, nbrs, i) ==
    IF i > Len(nbrs) THEN st
    ELSE LET neighbor_id == nbrs[i][1]
             new_dist == current_dist + nbrs[i][2]
         IN  IF neighbor_id \notin DOMAIN st.distances
             THEN [st EXCEPT !.exc = "KeyError"]
             ELSE IF new_dist < st.distances[neighbor_id]
             THEN Relax([st EXCEPT !.distances[neighbor_id] = new_dist,
                                   !.predecessors[neighbor_id] = current_id,
                                   !.pq = heappush(@, <<new_dist, neighbor_id>>)],
                        current_dist, current_id, nbrs, i + 1)
             ELSE Relax(st, current_dist, current_id, nbrs, i + 1)

\* _dijkstra's locals with the source as its own predecessor
InitSearch_self_pred(ns, s) ==
    [distances |-> [n \in DOMAIN ns |-> IF n = s THEN 0 ELSE Inf],
     predecessors |-> [n \in DOMAIN ns |-> IF n = s THEN s ELSE None],
     pq |-> <<<<0, s>>>>,
     visited |-> {},
     exc |-> "none"]

\* _dijkstra's locals before its loop
InitSearch(ns, s) ==
    [distances |-> [n \in DOMAIN ns |-> IF n = s THEN 0 ELSE Inf],
     predecessors |-> [n \in DOMAIN ns |-> None],
     pq |-> <<<<0, s>>>>,
     visited |-> {},
     exc |-> "none"]

\* one iteration of "while pq"
Iterate(adj, st) ==
    LET current_dist == Head(st.pq)[1]
        current_id == Head(st.pq)[2]
        popped == [st EXCEPT !.pq = Tail(@)]
    IN  IF current_id \in st.visited THEN popped
        ELSE LET marked == [popped EXCEPT !.visited = @ \cup {current_id}]
             IN  IF current_dist > st.distances[current_id] THEN marked
                 ELSE Relax(marked, current_dist, current_id,
                            get_neighbors(adj, current_id), 1)

\* _dijkstra's loop, run to its end or to the exception that leaves it
RECURSIVE RunLoop(_, _)
RunLoop(adj, st) ==
    IF st.exc # "none" \/ st.pq = <<>> THEN st
    ELSE RunLoop(adj, Iterate(adj, st))

_dijkstra(ns, adj, s) == RunLoop(adj, InitSearch(ns, s))

\* _reconstruct_path, before the reverse: current, predecessors[current], ...
\* until None.  A walk that comes back to an identifier never ends: hang is TRUE
RECURSIVE Trace(_, _, _)
Trace(preds, current, seen) ==
    IF current = None THEN [path |-> <<>>, hang |-> FALSE]
    ELSE IF current \in seen THEN [path |-> <<>>, hang |-> TRUE]
    ELSE LET r == Trace(preds, preds[current], seen \cup {current})
         IN  [path |-> <<current>> \o r.path, hang |-> r.hang]

Reverse(s) == [i \in 1..Len(s) |-> s[Len(s) + 1 - i]]

\* _reconstruct_path without path.reverse()
_reconstruct_path_unreversed(preds, s, e) ==
    Trace(preds, e, {})

_reconstruct_path(preds, s, e) ==
    LET r == Trace(preds, e, {})
    IN  [path |-> Reverse(r.path), hang |-> r.hang]

\* find_shortest_path without the "same start and end" branch
EarlyReturn_no_short_circuit(ns, s, e) ==
    IF s \notin DOMAIN ns \/ e \notin DOMAIN ns THEN NoPath
    ELSE NoResult

\* find_shortest_path with the "same start and end" branch before the validation
EarlyReturn_same_first(ns, s, e) ==
    IF s = e THEN Returned(<<s>>, 0)
    ELSE IF s \notin DOMAIN ns \/ e \notin DOMAIN ns THEN NoPath
    ELSE NoResult

\* find_shortest_path before the search: what it returns at once, or NoResult
EarlyReturn(ns, s, e) ==
    IF s \notin DOMAIN ns \/ e \notin DOMAIN ns THEN NoPath
    ELSE IF s = e THEN Returned(<<s>>, 0)
    ELSE NoResult

\* find_shortest_path without the "destination is reachable" check
LateReturn_unchecked(dist, preds, s, e) ==
    LET r == _reconstruct_path(preds, s, e)
    IN  IF r.hang THEN [kind |-> "hang"] ELSE Returned(r.path, dist[e])

\* find_shortest_path after the search
LateReturn(dist, preds, s, e) ==
    IF dist[e] = Inf THEN NoPath
    ELSE LET r == _reconstruct_path(preds, s, e)
         IN  IF r.hang THEN [kind |-> "hang"] ELSE Returned(r.path, dist[e])

\* find_shortest_path(s, e) as one call
find_shortest_path(ns, adj, s, e) ==
    IF EarlyReturn(ns, s, e) # NoResult THEN EarlyReturn(ns, s, e)
    ELSE LET st == _dijkstra(ns, adj, s)
         IN  IF st.exc # "none" THEN Raised(st.exc)
             ELSE LateReturn(st.distances, st.predecessors, s, e)

\* the locals of a frame that has returned
ClearLocals ==
    /\ distances' = EmptyDict
    /\ predecessors' = EmptyDict
    /\ pq' = <<>>
    /\ visited' = {}

\* the caller calls find_shortest_path(s, e): it returns at once or enters
\* _dijkstra's loop
Call(s, e) ==
    /\ Idle
    /\ start_id' = s
    /\ end_id' = e
    /\ IF EarlyReturn(nodes, s, e) # NoResult
       THEN /\ result' = EarlyReturn(nodes, s, e)
            /\ pc' = "done"
            /\ ClearLocals
       ELSE LET st == InitSearch(nodes, s)
            IN  /\ distances' = st.distances
                /\ predecessors' = st.predecessors
                /\ pq' = st.pq
                /\ visited' = st.visited
                /\ pc' = "loop"
                /\ UNCHANGED result
    /\ UNCHANGED graphVars

\* an iteration that pops the neighbors off the list get_neighbors returned,
\* which is the list adjacency holds, instead of reading them
LoopStep_consumes ==
    /\ pc = "loop"
    /\ pq # <<>>
    /\ LET st == Iterate(adjacency,
                         [distances |-> distances, predecessors |-> predecessors,
                          pq |-> pq, visited |-> visited, exc |-> "none"])
       IN  IF st.exc # "none"
           THEN /\ result' = Raised(st.exc)
                /\ pc' = "done"
                /\ ClearLocals
           ELSE /\ distances' = st.distances
                /\ predecessors' = st.predecessors
                /\ pq' = st.pq
                /\ visited' = st.visited
                /\ UNCHANGED <<pc, result>>
    /\ adjacency' = [k \in DOMAIN adjacency |->
                        IF k = Head(pq)[2] /\ k \notin visited THEN <<>>
                        ELSE adjacency[k]]
    /\ UNCHANGED <<nodes, loadOutcome, start_id, end_id>>

\* one iteration of "while pq"; an exception ends the call
LoopStep ==
    /\ pc = "loop"
    /\ pq # <<>>
    /\ LET st == Iterate(adjacency,
                         [distances |-> distances, predecessors |-> predecessors,
                          pq |-> pq, visited |-> visited, exc |-> "none"])
       IN  IF st.exc # "none"
           THEN /\ result' = Raised(st.exc)
                /\ pc' = "done"
                /\ ClearLocals
           ELSE /\ distances' = st.distances
                /\ predecessors' = st.predecessors
                /\ pq' = st.pq
                /\ visited' = st.visited
                /\ UNCHANGED <<pc, result>>
    /\ UNCHANGED <<graphVars, start_id, end_id>>

\* the loop ends: _dijkstra returns, find_shortest_path checks
\* distances[end_id] and reconstructs the path
Finish ==
    /\ pc = "loop"
    /\ pq = <<>>
    /\ result' = LateReturn(distances, predecessors, start_id, end_id)
    /\ pc' = "done"
    /\ ClearLocals
    /\ UNCHANGED <<graphVars, start_id, end_id>>

\* the caller takes the result
Return ==
    /\ pc = "done"
    /\ pc' = "idle"
    /\ start_id' = None
    /\ end_id' = None
    /\ result' = NoResult
    /\ UNCHANGED <<graphVars, distances, predecessors, pq, visited>>

Init ==
    /\ nodes = EmptyDict
    /\ adjacency = EmptyDict
    /\ loadOutcome = "none"
    /\ pc = "idle"
    /\ start_id = None
    /\ end_id = None
    /\ distances = EmptyDict
    /\ predecessors = EmptyDict
    /\ pq = <<>>
    /\ visited = {}
    /\ result = NoResult

Next ==
    \/ \E id \in Ids, name \in Names : AddNode(id, name)
    \/ \E a \in Ids, b \in Ids, w \in Weights : AddEdge(a, b, w)
    \/ LoadFromJson
    \/ \E s \in Ids, e \in Ids : Call(s, e)
    \/ LoopStep
    \/ Finish
    \/ Return

Spec == Init /\ [][Next]_vars

(***************************************************************************)
(* Reference notions the properties are stated with.  They are defined     *)
(* from the adjacency structure alone, not from the search.                *)
(***************************************************************************)
\* the (neighbor, weight) entries listed under u
Entries(adj, u) == {adj[u][i] : i \in 1..Len(adj[u])}

\* how many times x occurs in the list q
Count(q, x) == Cardinality({i \in 1..Len(q) : q[i] = x})

MinOf(S) == CHOOSE x \in S : \A y \in S : x <= y

\* every (u, (v, w)) such that (v, w) is listed under u
Arcs(adj) == UNION {{u} \X Entries(adj, u) : u \in DOMAIN adj}

\* one round of relaxing every arc (Bellman-Ford)
RelaxAll(adj, d) ==
    [v \in DOMAIN adj |->
        MinOf({d[v]} \cup {d[x[1]] + x[2][2] :
                 x \in {y \in Arcs(adj) : y[2][1] = v /\ d[y[1]] # Inf}})]

RECURSIVE Rounds(_, _, _)
Rounds(adj, d, k) == IF k = 0 THEN d ELSE Rounds(adj, RelaxAll(adj, d), k - 1)

\* the least total weight of a walk from s to each key of the adjacency
\* structure, Inf where there is no walk
WalkDist(adj, s) ==
    Rounds(adj, [v \in DOMAIN adj |-> IF v = s THEN 0 ELSE Inf],
           Cardinality(DOMAIN adj))

Reachable(adj, s, e) ==
    /\ s \in DOMAIN adj
    /\ e \in DOMAIN adj
    /\ WalkDist(adj, s)[e] # Inf

\* p is a list of identifiers, each listed as a neighbor of the one before
IsWalk(adj, p) ==
    \A i \in 1..(Len(p) - 1) :
        /\ p[i] \in DOMAIN adj
        /\ \E x \in Entries(adj, p[i]) : x[1] = p[i + 1]

NoRepeat(p) == \A i, j \in 1..Len(p) : p[i] = p[j] => i = j

\* the sum over consecutive pairs of the smallest weight listed for the pair
RECURSIVE WalkWeight(_, _)
WalkWeight(adj, p) ==
    IF Len(p) <= 1 THEN 0
    ELSE MinOf({x[2] : x \in {y \in Entries(adj, p[1]) : y[1] = p[2]}})
         + WalkWeight(adj, Tail(p))

\* the lists of distinct identifiers that lead from a to b
SimplePaths(adj, a, b) ==
    {p \in SeqsUpTo(DOMAIN adj, Cardinality(DOMAIN adj)) :
        /\ Len(p) >= 1
        /\ p[1] = a
        /\ p[Len(p)] = b
        /\ NoRepeat(p)
        /\ IsWalk(adj, p)}

\* exactly one list of distinct identifiers is a shortest path from a to b
UniqueShortest(adj, a, b) ==
    /\ Reachable(adj, a, b)
    /\ Cardinality({p \in SimplePaths(adj, a, b) :
                       WalkWeight(adj, p) = WalkDist(adj, a)[b]}) = 1

\* every edge joins registered locations
Closed(ns, adj) ==
    \A u \in DOMAIN adj :
        /\ u \in DOMAIN ns
        /\ \A x \in Entries(adj, u) : x[1] \in DOMAIN ns

Done == pc = "done"

\* both arguments of the finished call are registered and differ
RegisteredPair ==
    /\ start_id \in DOMAIN nodes
    /\ end_id \in DOMAIN nodes
    /\ start_id # end_id

\* the stepwise search and the one-call operator give the same result
StepwiseAgrees ==
    Done => result = find_shortest_path(nodes, adjacency, start_id, end_id)

\* add_node registers the identifier in both dictionaries
NodesHaveLists == DOMAIN nodes \subseteq DOMAIN adjacency

(***************************************************************************)
(* C1  Optimality: for registered start # end with end reachable from      *)
(* start in the adjacency structure, find_shortest_path returns the least  *)
(* total weight of a walk from start to end.                               *)
(***************************************************************************)
C1_Optimality ==
    (Done /\ RegisteredPair /\ Reachable(adjacency, start_id, end_id))
        => /\ result.kind = "return"
           /\ result.weight = WalkDist(adjacency, start_id)[end_id]

\* the same, of maps whose edges all join registered locations
C1_OptimalityOnClosedMaps ==
    Closed(nodes, adjacency) => C1_Optimality

(***************************************************************************)
(* C2  Path validity: a returned path is a non-empty list from start to    *)
(* end without a repeated identifier, each element listed as a neighbor of *)
(* the one before, and the returned weight is the sum over consecutive     *)
(* pairs of the smallest weight listed for the pair.                       *)
(***************************************************************************)
C2_PathValid ==
    (Done /\ result.kind = "return" /\ result.path # NonePath)
        => /\ Len(result.path) >= 1
           /\ result.path[1] = start_id
           /\ result.path[Len(result.path)] = end_id
           /\ NoRepeat(result.path)
           /\ IsWalk(adjacency, result.path)
           /\ result.weight = WalkWeight(adjacency, result.path)

\* a path through an intermediate location, over parallel edges of
\* different weights, has been returned
C2_Witness ==
    /\ Done
    /\ result.kind = "return"
    /\ result.path # NonePath
    /\ Len(result.path) = 3
    /\ \E x, y \in Entries(adjacency, result.path[1]) :
          x[1] = result.path[2] /\ y[1] = result.path[2] /\ x[2] # y[2]

(***************************************************************************)
(* C3  No route query raises: find_shortest_path always returns a value,   *)
(* also when an edge names an identifier that was never registered.        *)
(***************************************************************************)
C3_NeverRaises == result.kind \in {"none", "return"}

\* the same, of maps whose edges all join registered locations
C3_NeverRaisesOnClosedMaps ==
    Closed(nodes, adjacency) => C3_NeverRaises

(***************************************************************************)
(* C4  As claimed: for every identifier a, registered or not,              *)
(* find_shortest_path(a, a) returns ([a], 0).                              *)
(***************************************************************************)
C4_SameAnyIdentifier ==
    (Done /\ start_id = end_id) => result = Returned(<<start_id>>, 0)

(***************************************************************************)
(* C4  As amended: for every registered identifier a,                      *)
(* find_shortest_path(a, a) returns ([a], 0), and the search loop is never *)
(* entered with start = end.                                               *)
(***************************************************************************)
C4_SameRegistered ==
    /\ pc = "loop" => start_id # end_id
    /\ (Done /\ start_id = end_id /\ start_id \in DOMAIN nodes)
          => result = Returned(<<start_id>>, 0)

\* find_shortest_path(a, a) has returned for a registered a
C4_Witness ==
    Done /\ start_id = end_id /\ start_id \in DOMAIN nodes

(***************************************************************************)
(* C5  An argument that is no key of nodes gives (None, inf), also when    *)
(* add_edge made it a key of adjacency.                                    *)
(***************************************************************************)
C5_UnknownIsNoPath ==
    (Done /\ (start_id \notin DOMAIN nodes \/ end_id \notin DOMAIN nodes))
        => result = NoPath

\* the call has returned for a start known to adjacency only, which has a
\* registered neighbor that was the end
C5_Witness ==
    /\ Done
    /\ start_id \in DOMAIN adjacency
    /\ start_id \notin DOMAIN nodes
    /\ end_id \in DOMAIN nodes
    /\ \E x \in Entries(adjacency, start_id) : x[1] = end_id

(***************************************************************************)
(* C6  For registered a # b with b not reachable from a in the adjacency   *)
(* structure, find_shortest_path(a, b) returns (None, inf).                *)
(***************************************************************************)
C6_UnreachableIsNoPath ==
    (Done /\ RegisteredPair /\ ~Reachable(adjacency, start_id, end_id))
        => result = NoPath

\* the same, of maps whose edges all join registered locations
C6_UnreachableOnClosedMaps ==
    Closed(nodes, adjacency) => C6_UnreachableIsNoPath

(***************************************************************************)
(* C7  Result shape: the returned path is None exactly when the returned   *)
(* weight is inf, and a path that is not None comes with a finite weight   *)
(* that is at least 0.                                                     *)
(***************************************************************************)
C7_ResultShape ==
    (Done /\ result.kind = "return")
        => /\ result.path = NonePath <=> result.weight = Inf
           /\ result.path # NonePath =>
                 /\ result.weight \in Nat
                 /\ result.weight < Inf

\* a path of total weight 0 between two different locations has been returned
C7_Witness ==
    /\ Done
    /\ result.kind = "return"
    /\ start_id # end_id
    /\ result.path # NonePath
    /\ result.weight = 0

(***************************************************************************)
(* C8  Query symmetry: find_shortest_path(a, b) and (b, a) return the same *)
(* weight, and reversed paths when the shortest path is unique.            *)
(***************************************************************************)
SymmetricFor(a, b) ==
    LET ab == find_shortest_path(nodes, adjacency, a, b)
        ba == find_shortest_path(nodes, adjacency, b, a)
    IN  /\ ab.kind = "return"
        /\ ba.kind = "return"
        /\ ab.weight = ba.weight
        /\ UniqueShortest(adjacency, a, b) => ba.path = Reverse(ab.path)

C8_QuerySymmetry ==
    Idle => \A a, b \in Ids : SymmetricFor(a, b)

\* the same, of maps whose edges all join registered locations
C8_QuerySymmetryOnClosedMaps ==
    Closed(nodes, adjacency) => C8_QuerySymmetry

C10_ClosedAfterLoad ==
    loadOutcome = "returned" => Closed(nodes, adjacency)

(***************************************************************************)
(* The Map Model alone, with nodes registered again under another name.    *)
(***************************************************************************)
NextNodes ==
    \/ \E id \in Ids, name \in NamesWide : AddNode(id, name)
    \/ \E a \in Ids, b \in Ids, w \in Weights : AddEdge(a, b, w)
    \/ LoadFromJson

SpecNodes == Init /\ [][NextNodes]_vars

\* the orders in which a dictionary may hold the keys S
Orders(S) ==
    {p \in [1..Cardinality(S) -> S] : \A i, j \in 1..Cardinality(S) : p[i] = p[j] => i = j}

\* every list get_all_nodes may return
AllNodesLists == {get_all_nodes(nodes, order) : order \in Orders(DOMAIN nodes)}

\* l holds one Node per registered id, in strictly ascending id order
ListsEachIdOnce(l) ==
    /\ Len(l) = Cardinality(DOMAIN nodes)
    /\ {l[k].id : k \in 1..Len(l)} = DOMAIN nodes
    /\ \A k \in 1..(Len(l) - 1) : l[k].id < l[k + 1].id

\* every entry of l is the Node that nodes holds for its id
ListsMatch(l) == \A k \in 1..Len(l) : l[k] = nodes[l[k].id]

(***************************************************************************)
(* C11  Whatever order the dictionary holds its keys in, get_all_nodes     *)
(* returns each registered id exactly once, in ascending id order, with    *)
(* the Node that nodes holds for it; and add_node(Node(i, n)) leaves       *)
(* Node(i, n) under i, replacing any earlier Node with that id, and every  *)
(* other id's Node as it was.                                              *)
(***************************************************************************)
C11_AllNodesSortedLastWins ==
    /\ [](\A l \in AllNodesLists : ListsEachIdOnce(l) /\ ListsMatch(l))
    /\ [][\A i \in Ids, n \in NamesWide :
            AddNode(i, n) =>
               /\ nodes'[i] = Node(i, n)
               /\ \A j \in (DOMAIN nodes) \ {i} : nodes'[j] = nodes[j]]_vars

\* ids added in the order 3, 1, 2 or alike, and id 1 registered twice:
\* first as "Gym", then as "Lab"
C11_Witness ==
    /\ DOMAIN nodes = Ids
    /\ nodes[1].name = "Lab"
    /\ nodes[3].name = "Gym"

(***************************************************************************)
(* C12  Edges before nodes.  In every state of the Map Model: add_edge     *)
(* registers an endpoint that adjacency lacks with an empty list and then  *)
(* appends, leaving every other list alone; add_node leaves the lists of   *)
(* adjacency as they are, adding only an empty list for an id it lacks;    *)
(* and an add_node followed by an add_edge leaves the same adjacency as    *)
(* the add_edge followed by the add_node, so that moving every add_node of *)
(* a run before its add_edge calls changes no list.                        *)
(***************************************************************************)
\* the list of k before add_edge appends to it
ListBefore(adj, k) == IF k \in DOMAIN adj THEN adj[k] ELSE <<>>

C12_EdgesBeforeNodes ==
    /\ \A a \in Ids, b \in Ids, w \in Weights :
          LET afterEdge == add_edge(adjacency, a, b, w)
          IN  /\ DOMAIN afterEdge = (DOMAIN adjacency) \cup {a, b}
              /\ \A k \in (DOMAIN adjacency) \ {a, b} : afterEdge[k] = adjacency[k]
              /\ a # b => /\ afterEdge[a] = Append(ListBefore(adjacency, a), <<b, w>>)
                          /\ afterEdge[b] = Append(ListBefore(adjacency, b), <<a, w>>)
              /\ a = b => afterEdge[a] =
                              ListBefore(adjacency, a) \o <<(<<a, w>>), (<<a, w>>)>>
              /\ \A i \in Ids, n \in Names :
                    add_edge(add_node(nodes, adjacency, Node(i, n))[2], a, b, w)
                        = add_node(nodes, afterEdge, Node(i, n))[2]
    /\ \A i \in Ids, n \in NamesWide :
          LET afterNode == add_node(nodes, adjacency, Node(i, n))
          IN  /\ DOMAIN afterNode[2] = (DOMAIN adjacency) \cup {i}
              /\ \A k \in DOMAIN afterNode[2] :
                    afterNode[2][k] = ListBefore(adjacency, k)

\* an edge was added before one of its endpoints was registered, and another
\* node, registered, has neighbors
C12_Witness ==
    /\ \E k \in (DOMAIN adjacency) \ (DOMAIN nodes) : adjacency[k] # <<>>
    /\ \E k \in DOMAIN nodes : adjacency[k] # <<>>

(***************************************************************************)
(* Two consecutive calls with the same arguments.                          *)
(***************************************************************************)
\* the caller, holding the first call's result, calls find_shortest_path
\* again with the same arguments; result keeps the first value until the
\* second call ends
CallAgain ==
    /\ pc = "done"
    /\ IF EarlyReturn(nodes, start_id, end_id) # NoResult
       THEN /\ result' = EarlyReturn(nodes, start_id, end_id)
            /\ pc' = "done"
            /\ ClearLocals
       ELSE LET st == InitSearch(nodes, start_id)
            IN  /\ distances' = st.distances
                /\ predecessors' = st.predecessors
                /\ pq' = st.pq
                /\ visited' = st.visited
                /\ pc' = "loop"
                /\ UNCHANGED result
    /\ UNCHANGED <<graphVars, start_id, end_id>>

NextTwice ==
    \/ \E id \in Ids, name \in Names : AddNode(id, name)
    \/ \E a \in Ids, b \in Ids, w \in Weights : AddEdge(a, b, w)
    \/ \E s \in Ids, e \in Ids : Call(s, e)
    \/ LoopStep
    \/ Finish
    \/ Return
    \/ CallAgain

SpecTwice == Init /\ [][NextTwice]_vars

(***************************************************************************)
(* C13  Idempotence: a call leaves nodes and adjacency as they were; a     *)
(* second call with the same arguments starts from fresh distances,        *)
(* predecessors, frontier and finalized set; and it ends with the result   *)
(* of the first call, a raised exception included.                         *)
(***************************************************************************)
C13_Idempotent ==
    [][/\ pc # "idle" => UNCHANGED <<nodes, adjacency>>
       /\ (pc = "done" /\ pc' = "loop") =>
             LET st == InitSearch(nodes, start_id)
             IN  <<distances', predecessors', pq', visited'>>
                     = <<st.distances, st.predecessors, st.pq, st.visited>>
       /\ (pc # "idle" /\ result # NoResult /\ pc' = "done") =>
             result' = result]_vars

\* the second call is in its loop, after the first returned a path
C13_Witness ==
    /\ pc = "loop"
    /\ result.kind = "return"
    /\ result.path # NonePath
    /\ Cardinality(visited) >= 2

(***************************************************************************)
(* C14  Direct edge: for registered a # b with exactly one edge between    *)
(* them, of weight w, and no walk from a to b lighter than w,              *)
(* find_shortest_path(a, b) returns ([a, b], w).                           *)
(***************************************************************************)
\* the positions of adj[a] that list b
EdgesTo(adj, a, b) ==
    IF a \in DOMAIN adj THEN {k \in 1..Len(adj[a]) : adj[a][k][1] = b} ELSE {}

\* the finished call was for a pair joined by a single edge that no walk beats
DirectEdgeCase ==
    /\ Done
    /\ RegisteredPair
    /\ Cardinality(EdgesTo(adjacency, start_id, end_id)) = 1
    /\ \A k \in EdgesTo(adjacency, start_id, end_id) :
          WalkDist(adjacency, start_id)[end_id] = adjacency[start_id][k][2]

C14_DirectEdge ==
    DirectEdgeCase =>
        \A k \in EdgesTo(adjacency, start_id, end_id) :
            result = Returned(<<start_id, end_id>>, adjacency[start_id][k][2])

\* the same, of maps whose edges all join registered locations
C14_DirectEdgeOnClosedMaps ==
    Closed(nodes, adjacency) => C14_DirectEdge

\* a direct edge of weight 1 beside a two-edge walk of the same weight, on a
\* map whose edges all join registered locations
C14_WitnessOnClosedMaps ==
    /\ DirectEdgeCase
    /\ Closed(nodes, adjacency)
    /\ WalkDist(adjacency, start_id)[end_id] = 1
    /\ \E c \in (DOMAIN adjacency) \ {start_id, end_id} :
          /\ EdgesTo(adjacency, start_id, c) # {}
          /\ EdgesTo(adjacency, c, end_id) # {}
          /\ WalkDist(adjacency, start_id)[c] + WalkDist(adjacency, c)[end_id] = 1

(***************************************************************************)
(* The application: main() builds MainWindow, whose __init__ loads the map *)
(* and then constructs the PathFinder; route queries follow.               *)
(***************************************************************************)
\* MainWindow.__init__ with "except Exception: print(...)" and no "raise"
Startup_swallows ==
    /\ pc = "start"
    /\ \E doc \in Docs :
          LET r == load_from_json(nodes, adjacency, doc)
          IN  /\ nodes' = r.nodes
              /\ adjacency' = r.adjacency
              /\ loadOutcome' = IF r.exc = "none" THEN "returned" ELSE r.exc
    /\ pc' = "idle"
    /\ UNCHANGED <<start_id, end_id, distances, predecessors, pq, visited, result>>

\* MainWindow(): Graph(), load_from_json, and PathFinder(self.graph) when the
\* load returned; when it raised, __init__ re-raises and main() shows the
\* error and calls sys.exit(1)
Startup ==
    /\ pc = "start"
    /\ \E doc \in Docs :
          LET r == load_from_json(nodes, adjacency, doc)
          IN  /\ nodes' = r.nodes
              /\ adjacency' = r.adjacency
              /\ loadOutcome' = IF r.exc = "none" THEN "returned" ELSE r.exc
              /\ pc' = IF r.exc = "none" THEN "idle" ELSE "exited"
    /\ UNCHANGED <<start_id, end_id, distances, predecessors, pq, visited, result>>

\* main() before MainWindow()
InitApp ==
    /\ nodes = EmptyDict
    /\ adjacency = EmptyDict
    /\ loadOutcome = "none"
    /\ pc = "start"
    /\ start_id = None
    /\ end_id = None
    /\ distances = EmptyDict
    /\ predecessors = EmptyDict
    /\ pq = <<>>
    /\ visited = {}
    /\ result = NoResult

NextApp ==
    \/ Startup
    \/ \E s \in Ids, e \in Ids : Call(s, e)
    \/ LoopStep
    \/ Finish
    \/ Return

SpecApp == InitApp /\ [][NextApp]_vars

\* the ways load_from_json raises
LoadFailures == {"FileNotFoundError", "JSONDecodeError", "KeyError"}

(***************************************************************************)
(* C15  Load failure is fatal: once load_from_json has raised, the         *)
(* application has exited: no PathFinder takes a call and no query has a   *)
(* result, whatever the failed load left in nodes and adjacency.           *)
(***************************************************************************)
C15_LoadFailureIsFatal ==
    loadOutcome \in LoadFailures =>
        /\ pc = "exited"
        /\ result = NoResult
        /\ start_id = None /\ end_id = None
        /\ pq = <<>> /\ visited = {}

\* the load raised on an entry after it had added a node and an edge
C15_Witness ==
    /\ loadOutcome = "KeyError"
    /\ pc = "exited"
    /\ DOMAIN nodes # {}
    /\ EdgeCount(adjacency) >= 1

(***************************************************************************)
(* The search loop.                                                        *)
(***************************************************************************)
InLoop == pc = "loop"

\* the loop is about to pop an entry of a location not yet in visited
Finalizing == InLoop /\ pq # <<>> /\ Head(pq)[2] \notin visited

\* "while pq" has found pq empty: _dijkstra returns
SearchEnded == InLoop /\ pq = <<>>

(***************************************************************************)
(* C16  Finalization.  An iteration adds at most the popped location to    *)
(* visited, and only if it was not there; the entry popped for a location  *)
(* that enters visited carries its recorded distance, which is the least   *)
(* weight of a walk from start; the distance and predecessor of a location *)
(* in visited never change while the search runs; and when the search has  *)
(* ended a registered location has a finite distance exactly if a walk     *)
(* leads to it from start.                                                 *)
(***************************************************************************)
C16_Finalization ==
    /\ [](Finalizing =>
            /\ Head(pq)[1] = distances[Head(pq)[2]]
            /\ Head(pq)[1] = WalkDist(adjacency, start_id)[Head(pq)[2]])
    /\ [](SearchEnded =>
            \A v \in DOMAIN nodes :
                distances[v] # Inf <=> Reachable(adjacency, start_id, v))
    /\ [][(InLoop /\ pc' = "loop") =>
            /\ visited' \in {visited, visited \cup {Head(pq)[2]}}
            /\ Head(pq)[2] \in visited => visited' = visited
            /\ \A v \in visited :
                  /\ distances'[v] = distances[v]
                  /\ predecessors'[v] = predecessors[v]]_vars

\* a search has ended with a location finalized at distance 0 after start
\* listed it at weight 1 first, and with a registered location out of reach
C16_Witness ==
    /\ SearchEnded
    /\ \E v \in visited \ {start_id} :
          /\ distances[v] = 0
          /\ Head(adjacency[start_id]) = <<v, 1>>
    /\ \E v \in DOMAIN nodes : distances[v] = Inf

\* the entry the loop pops next is worse than the distance recorded for its
\* location
StaleHead == InLoop /\ pq # <<>> /\ Head(pq)[1] > distances[Head(pq)[2]]

\* every neighbor of v has been relaxed from v's recorded distance
RelaxedFrom(v) ==
    \A x \in Entries(adjacency, v) :
        x[1] \in DOMAIN distances => distances[x[1]] <= distances[v] + x[2]

(***************************************************************************)
(* C17  Stale entries: an entry popped with a distance above the recorded  *)
(* distance of its location belongs to a location already in visited, and  *)
(* popping it changes neither visited nor any distance or predecessor;     *)
(* every location in visited has had its neighbors relaxed from its        *)
(* recorded distance.                                                      *)
(***************************************************************************)
C17_StaleSkipped ==
    /\ [](StaleHead => Head(pq)[2] \in visited)
    /\ [](InLoop => \A v \in visited : RelaxedFrom(v))
    /\ [][StaleHead =>
            /\ pc' = "loop"
            /\ pq' \in {pq, Tail(pq)}
            /\ UNCHANGED <<visited, distances, predecessors, result>>]_vars

\* the frontier holds a stale entry at its head
C17_Witness == StaleHead

(***************************************************************************)
(* The calls of Spec, with a search loop that runs on: find_shortest_path  *)
(* runs in one thread and nothing in the loop waits.                       *)
(***************************************************************************)
SpecFair == Spec /\ WF_vars(LoopStep) /\ WF_vars(Finish)

\* the entries an iteration put into the frontier
Pushed == {pq'[k] : k \in {j \in 1..Len(pq') : Count(pq', pq'[j]) > Count(Tail(pq), pq'[j])}}

\* each pushed entry is a strict improvement for a location outside visited,
\* and the frontier never holds more than one entry per list entry and one for
\* start
BoundedInsertions ==
    /\ [][(InLoop /\ pc' = "loop") =>
            \A x \in Pushed :
                /\ x[2] \notin visited'
                /\ x[1] < distances[x[2]]
                /\ distances'[x[2]] <= x[1]]_vars
    /\ [](InLoop => Len(pq) <= 1 + SumLen(adjacency, DOMAIN adjacency))

(***************************************************************************)
(* C18  Termination: a search loop that has been entered reaches an empty  *)
(* frontier, where _dijkstra returns; and entries enter the frontier only  *)
(* on a strict improvement of a location not yet in visited.               *)
(***************************************************************************)
C18_Termination ==
    /\ InLoop ~> SearchEnded
    /\ BoundedInsertions

\* the same, of maps whose edges all join registered locations
C18_TerminationOnClosedMaps ==
    /\ (InLoop /\ Closed(nodes, adjacency)) ~> SearchEnded
    /\ BoundedInsertions

\* on every map the loop is left, by return or by the KeyError
C18_LoopIsLeft ==
    /\ InLoop ~> Done
    /\ BoundedInsertions

(***************************************************************************)
(* C19  Predecessor chains.  When _dijkstra returns, start has no          *)
(* predecessor; any other registered location has one exactly if its       *)
(* distance is finite; and from every location of finite distance the walk *)
(* of _reconstruct_path ends, repeats no location and stops at start, so   *)
(* that the reversed list is a path beginning with start.                  *)
(***************************************************************************)
C19_ChainWellFounded ==
    SearchEnded =>
        /\ predecessors[start_id] = None
        /\ \A v \in (DOMAIN nodes) \ {start_id} :
              predecessors[v] # None <=> distances[v] # Inf
        /\ \A v \in DOMAIN nodes :
              distances[v] # Inf =>
                 LET walk == Trace(predecessors, v, {})
                     r == _reconstruct_path(predecessors, start_id, v)
                 IN  /\ ~walk.hang
                     /\ NoRepeat(walk.path)
                     /\ walk.path[Len(walk.path)] = start_id
                     /\ ~r.hang
                     /\ r.path[1] = start_id
                     /\ r.path[Len(r.path)] = v

\* a search has ended with a chain of two zero-weight edges to a location
\* that has a zero-weight self-loop
C19_Witness ==
    /\ SearchEnded
    /\ \E v \in visited : \E u \in visited \ {start_id, v} :
          /\ predecessors[v] = u
          /\ predecessors[u] = start_id
          /\ distances[v] = 0
          /\ <<v, 0>> \in Entries(adjacency, v)

====
